---- MODULE Spec2Model ----
(***************************************************************************)
(* Model of the finance_app indexing and hybrid-retrieval services:        *)
(*   backend/app/utils/csv_parser.py        parse / text formatting        *)
(*   backend/app/services/indexing_service.py  ids, load, delete, count    *)
(*   backend/app/services/rag_service.py     ask, dual search, RRF fusion  *)
(*   backend/app/services/embedding_service.py  embed_batch and its cache  *)
(*                                                                         *)
(* Strings that the code concatenates or searches are sequences of         *)
(* one-character strings, so that concatenation and substring search are   *)
(* computed, not assumed. The Cyrillic keywords and column names of the    *)
(* source are written in Latin transliteration.                            *)
(***************************************************************************)
EXTENDS Integers, Sequences, FiniteSets, TLC

VARIABLES store, resp, fusion, estimate, cache, embed, db, loads

vars == <<store, resp, fusion, estimate, cache, embed, db, loads>>

----------------------------------------------------------------------------
(* Bounds of the model *)

\* longest CSV (in data rows) a load is given
MaxRows == 2
\* largest explicit limit a caller passes to ask
MaxLimit == 1
\* number of distinct points the fusion inputs are drawn from
MaxHits == 3
\* largest k handed to _rrf_fusion when it is checked as a function
MaxK == 2
\* longest query (in words) handed to _estimate_limit when it is checked as a function
MaxWords == 2
\* largest batch_size an EmbeddingService is built with when embed_batch is checked
MaxBatchSize == 2
\* most full upsert batches a long CSV fills
MaxBatches == 2

Users == {1, 2}

----------------------------------------------------------------------------
(* Character strings *)

Digits == <<"0", "1", "2", "3", "4", "5", "6", "7", "8", "9">>

\* str(int) for a non-negative integer
RECURSIVE DecStr(_)
DecStr(n) == IF n < 10 THEN <<Digits[n + 1]>>
             ELSE DecStr(n \div 10) \o <<Digits[(n % 10) + 1]>>

\* zero-padded field of width w, as date.isoformat() writes year, month, day
RECURSIVE Pad(_, _)
Pad(s, w) == IF Len(s) >= w THEN s ELSE Pad(<<"0">> \o s, w)

DigitVal(c) == CHOOSE i \in 0..9 : Digits[i + 1] = c

\* int(s) for a string of decimal digits
RECURSIVE NumOf(_)
NumOf(s) == IF Len(s) = 0 THEN 0
            ELSE 10 * NumOf(SubSeq(s, 1, Len(s) - 1)) + DigitVal(s[Len(s)])

\* `w in q` for Python strings
IsSubstring(w, q) ==
    \E i \in 1..(Len(q) - Len(w) + 1) : SubSeq(q, i, i + Len(w) - 1) = w

\* str.strip() for the blank character
RECURSIVE Strip(_)
Strip(s) == IF Len(s) > 0 /\ s[1] = " " THEN Strip(Tail(s))
            ELSE IF Len(s) > 0 /\ s[Len(s)] = " " THEN Strip(SubSeq(s, 1, Len(s) - 1))
            ELSE s

\* str(float) of a float holding a whole non-negative number: 500.0 -> "500.0"
FloatStr(n) == DecStr(n) \o <<".", "0">>

----------------------------------------------------------------------------
(* Calendar dates *)

IsoFormat(d) ==
    Pad(DecStr(d.y), 4) \o <<"-">> \o Pad(DecStr(d.m), 2) \o <<"-">> \o Pad(DecStr(d.d), 2)

\* datetime.fromisoformat on a YYYY-MM-DD string
FromIsoFormat(s) ==
    [y |-> NumOf(SubSeq(s, 1, 4)), m |-> NumOf(SubSeq(s, 6, 7)), d |-> NumOf(SubSeq(s, 9, 10))]

IsLeap(y) == (y % 4 = 0) /\ ((y % 100 # 0) \/ (y % 400 = 0))

DaysBeforeMonth(y, m) ==
    <<0, 31, 59, 90, 120, 151, 181, 212, 243, 273, 304, 334>>[m]
    + (IF m > 2 /\ IsLeap(y) THEN 1 ELSE 0)

\* date.weekday(): Monday is 0
Weekday(d) ==
    LET py  == d.y - 1
        ord == 365 * py + (py \div 4) - (py \div 100) + (py \div 400)
               + DaysBeforeMonth(d.y, d.m) + d.d
    IN (ord + 6) % 7

----------------------------------------------------------------------------
(* CSV source and parse_transactions_csv *)

\* A row's 'Summa operatsii' cell is given by the float it parses to (ok) or as
\* text float() rejects (not ok). The 'Data operatsii' cell: a date in one of the four accepted formats, an
\* empty cell, or text that no format accepts.
DateForms == {"dmy_hms", "dmy", "ymd_hms", "ymd"}

Mar1 == [y |-> 2024, m |-> 3, d |-> 1]
Mar2 == [y |-> 2024, m |-> 3, d |-> 2]

Cafe == <<"C", "a", "f", "e">>
Taxi == <<"T", "a", "x", "i">>
Coffee == <<"C", "o", "f", "f", "e", "e">>
Ride == <<"R", "i", "d", "e">>
NoMcc == <<>>
Mcc5812 == <<"5", "8", "1", "2">>
Mcc4121 == <<"4", "1", "2", "1">>

CafeRow ==
    [date |-> [form |-> "ymd", val |-> Mar1], amount |-> [ok |-> TRUE, val |-> -500],
     category |-> Cafe, description |-> Coffee, mcc |-> NoMcc]
\* same date, magnitude, category and description as CafeRow; other sign and MCC
CafeRefundRow ==
    [date |-> [form |-> "dmy_hms", val |-> Mar1], amount |-> [ok |-> TRUE, val |-> 500],
     category |-> Cafe, description |-> Coffee \o <<" ">>, mcc |-> Mcc5812]
TaxiRow ==
    [date |-> [form |-> "dmy", val |-> Mar2], amount |-> [ok |-> TRUE, val |-> -1200],
     category |-> <<" ">> \o Taxi, description |-> Ride, mcc |-> Mcc4121]
BadDateRow ==
    [date |-> [form |-> "invalid", val |-> Mar2], amount |-> [ok |-> TRUE, val |-> -1200],
     category |-> Taxi, description |-> Ride, mcc |-> NoMcc]

EmptyDateRow == [BadDateRow EXCEPT !.date.form = "empty"]
BadAmountRow == [TaxiRow EXCEPT !.amount = [ok |-> FALSE, val |-> 0]]

RowPool == {CafeRow, CafeRefundRow, TaxiRow}

RowSeqs == UNION {[1..n -> RowPool] : n \in 0..MaxRows}

\* What load is given: a readable file with the expected header, a readable
\* file whose header lacks the 'Kategoriya' column, or a path with no file.
Sources ==
    {[kind |-> "ok", rows |-> r] : r \in RowSeqs}
    \cup {[kind |-> "ok", rows |-> <<BadDateRow, TaxiRow, EmptyDateRow>>],
          [kind |-> "ok", rows |-> <<BadAmountRow>>],
          [kind |-> "nocolumn", rows |-> <<CafeRow>>],
          [kind |-> "nofile", rows |-> <<>>]}

\* lines 40-53: the first format that parses gives the date, else None
ParseDate(cell) == [ok |-> cell.form \in DateForms, val |-> cell.val]

\* lines 25-85, one row: skipped, raising (KeyError on the missing column) or
\* giving a transaction
ParseRow(row, kind) ==
    IF row.date.form = "empty" \/ ~ParseDate(row.date).ok \/ ~row.amount.ok
    THEN [out |-> "skip"]
    ELSE IF kind = "nocolumn" THEN [out |-> "raise"]
    ELSE LET amount == row.amount.val
         IN [out |-> "ok",
             txn |-> [date |-> IsoFormat(ParseDate(row.date).val),
                      amount |-> IF amount < 0 THEN -amount ELSE amount,
                      category |-> Strip(row.category),
                      description |-> Strip(row.description),
                      mcc |-> Strip(row.mcc),
                      cashback |-> amount,
                      is_expense |-> amount < 0]]

\* the loop over the rows, lines 28-96: a row that raises ends the parse, a
\* skipped row is passed over, every other row gives a transaction, in order
ParseRows(rows, kind, acc) ==
    LET parsed == [i \in 1..Len(rows) |-> ParseRow(rows[i], kind)]
        IsOk(r) == r.out = "ok"
        kept == SelectSeq(parsed, IsOk)
    IN IF \E i \in 1..Len(rows) : parsed[i].out = "raise"
       THEN [raised |-> TRUE, transactions |-> <<>>]
       ELSE [raised |-> FALSE,
             transactions |-> acc \o [i \in 1..Len(kept) |-> kept[i].txn]]

parse_transactions_csv(src) ==
    IF src.kind = "nofile" THEN [raised |-> TRUE, transactions |-> <<>>]
    ELSE ParseRows(src.rows, src.kind, <<>>)

format_transaction_text(t) ==
    LET text == t.date \o <<" ">> \o t.category \o <<" ">> \o t.description
                \o <<" ">> \o FloatStr(t.amount) \o <<" ", "r", "u", "b">>
    IN IF Len(t.mcc) > 0 THEN text \o <<" ", "M", "C", "C", ":">> \o t.mcc ELSE text

----------------------------------------------------------------------------
(* Deterministic ids and points *)

\* sha256 followed by uuid.UUID(bytes=digest[:16]), taken as collision-free
Sha256Uuid(s) == <<"uuid">> \o s

\* variant: the MCC is part of the hashed string
GenerateIdWithMcc(transaction, user_id) ==
    Sha256Uuid(DecStr(user_id) \o <<"|">> \o transaction.date \o <<"|">>
               \o FloatStr(transaction.amount) \o <<"|">> \o transaction.category
               \o <<"|">> \o transaction.description \o <<"|">> \o transaction.mcc)

\* variant: the user id is left out of the hashed string
GenerateIdWithoutUser(transaction, user_id) ==
    Sha256Uuid(transaction.date \o <<"|">>
               \o FloatStr(transaction.amount) \o <<"|">> \o transaction.category
               \o <<"|">> \o transaction.description)

\* variant: a running number (the size of the collection) is hashed along
\* with the content, as an id drawn from a sequence would be
GenerateIdWithSequenceNumber(transaction, user_id) ==
    Sha256Uuid(DecStr(Cardinality(store)) \o <<"|">> \o DecStr(user_id) \o <<"|">>
               \o transaction.date \o <<"|">>
               \o FloatStr(transaction.amount) \o <<"|">> \o transaction.category
               \o <<"|">> \o transaction.description)

_generate_transaction_id(transaction, user_id) ==
    Sha256Uuid(DecStr(user_id) \o <<"|">> \o transaction.date \o <<"|">>
               \o FloatStr(transaction.amount) \o <<"|">> \o transaction.category
               \o <<"|">> \o transaction.description)

\* the embedding models: a vector is determined by the text it embeds
EmbedDense(text) == <<"dense">> \o text
EmbedSparse(text) == <<"sparse">> \o text

\* embed_batch, lines 167-193: parallel lists, entry i for texts[i]. With
\* use_cache the lists may be read from the batch's cache file instead; the
\* file holds what this computation gave for a batch of the same key, and no
\* two batches of the sources drawn here share a key.
BATCH_SIZE == 32

\* lines 167-186: the loop over texts[i : i + batch_size], from position i on;
\* each model embeds the chunk and the lists are extended with what it gave
RECURSIVE EmbedChunks(_, _, _)
EmbedChunks(texts, size, i) ==
    IF i > Len(texts) THEN [dense |-> <<>>, sparse |-> <<>>]
    ELSE LET last  == IF i + size - 1 < Len(texts) THEN i + size - 1 ELSE Len(texts)
             batch == SubSeq(texts, i, last)
             rest  == EmbedChunks(texts, size, i + size)
         IN [dense |-> [j \in 1..Len(batch) |-> EmbedDense(batch[j])] \o rest.dense,
             sparse |-> [j \in 1..Len(batch) |-> EmbedSparse(batch[j])] \o rest.sparse]

embed_batch(texts) == EmbedChunks(texts, BATCH_SIZE, 1)

\* lines 118-148, one iteration
BuildPoint(transaction, user_id, dense, sparse) ==
    LET date_obj == FromIsoFormat(transaction.date)
    IN [id |-> _generate_transaction_id(transaction, user_id),
        vector |-> [dense |-> dense, sparse |-> sparse],
        payload |-> [date |-> transaction.date,
                     amount |-> transaction.amount,
                     category |-> transaction.category,
                     description |-> transaction.description,
                     mcc |-> transaction.mcc,
                     cashback |-> transaction.cashback,
                     is_expense |-> transaction.is_expense,
                     user_id |-> user_id,
                     year |-> date_obj.y,
                     month |-> date_obj.m,
                     quarter |-> ((date_obj.m - 1) \div 3) + 1,
                     day_of_week |-> Weekday(date_obj)]]

BuildPoints(transactions, user_id) ==
    LET texts == [i \in 1..Len(transactions) |-> format_transaction_text(transactions[i])]
        vecs  == embed_batch(texts)
    IN [idx \in 1..Len(transactions) |->
            BuildPoint(transactions[idx], user_id, vecs.dense[idx], vecs.sparse[idx])]

----------------------------------------------------------------------------
(* EmbeddingService: the whole-batch cache. A cache file is a record with   *)
(* its name (key), whether pickle can load it (readable) and the two lists  *)
(* it holds; the directory is a set with at most one file of a name.        *)

\* sha256(...).hexdigest()[:16], taken as collision-free
Sha256Hex16(s) == <<"sha256">> \o s

\* "".join(texts)
RECURSIVE JoinTexts(_)
JoinTexts(texts) ==
    IF Len(texts) = 0 THEN <<>> ELSE Head(texts) \o JoinTexts(Tail(texts))

_get_cache_key(texts) ==
    <<"embeddings_">> \o Sha256Hex16(JoinTexts(texts)) \o <<".pkl">>

FilesNamed(c, cache_key) == {f \in c : f.key = cache_key}

Unreadable(cache_key) ==
    [key |-> cache_key, readable |-> FALSE, dense |-> <<>>, sparse |-> <<>>]

\* variant: the read is not guarded, the error of pickle.load escapes
LoadFromCacheUnguarded(c, cache_key) ==
    IF FilesNamed(c, cache_key) = {}
    THEN [cache |-> c, hit |-> FALSE, raised |-> FALSE, dense |-> <<>>, sparse |-> <<>>]
    ELSE LET f == CHOOSE f \in FilesNamed(c, cache_key) : TRUE
         IN IF f.readable
            THEN [cache |-> c, hit |-> TRUE, raised |-> FALSE,
                  dense |-> f.dense, sparse |-> f.sparse]
            ELSE [cache |-> c, hit |-> FALSE, raised |-> TRUE,
                  dense |-> <<>>, sparse |-> <<>>]

\* _load_from_cache: the lists of the file, or None (hit = FALSE) when there is
\* no file or the file cannot be loaded; in that case the file is unlinked
_load_from_cache(c, cache_key) ==
    IF FilesNamed(c, cache_key) = {}
    THEN [cache |-> c, hit |-> FALSE, raised |-> FALSE, dense |-> <<>>, sparse |-> <<>>]
    ELSE LET f == CHOOSE f \in FilesNamed(c, cache_key) : TRUE
         IN IF f.readable
            THEN [cache |-> c, hit |-> TRUE, raised |-> FALSE,
                  dense |-> f.dense, sparse |-> f.sparse]
            ELSE [cache |-> c \ {f}, hit |-> FALSE, raised |-> FALSE,
                  dense |-> <<>>, sparse |-> <<>>]

\* how a cache write can end: done, open() fails and the directory stays as it
\* is, or pickle.dump fails and leaves a truncated file
WriteOutcomes == {"ok", "open_fails", "dump_fails"}

\* _save_to_cache: every error is caught and logged
_save_to_cache(c, cache_key, dense_vectors, sparse_vectors, write) ==
    IF write = "open_fails" THEN c
    ELSE (c \ FilesNamed(c, cache_key))
         \cup {IF write = "ok"
                THEN [key |-> cache_key, readable |-> TRUE,
                      dense |-> dense_vectors, sparse |-> sparse_vectors]
                ELSE Unreadable(cache_key)}

\* embed_batch(texts, use_cache = True), lines 142-193, of a service built
\* with batch_size = size. faults: model (an
\* embedding model raises), write (how the cache write ends). Gives the cache
\* directory afterwards, whether the call returned or raised, and the lists.
embed_batch_use_cache(c, texts, size, faults) ==
    IF Len(texts) = 0
    THEN [cache |-> c, status |-> "returned", from_cache |-> FALSE,
          dense |-> <<>>, sparse |-> <<>>]
    ELSE LET cache_key == _get_cache_key(texts)
             cached == _load_from_cache(c, cache_key)
         IN IF cached.raised
            THEN [cache |-> cached.cache, status |-> "raised", from_cache |-> FALSE,
                  dense |-> <<>>, sparse |-> <<>>]
            ELSE IF cached.hit
            THEN [cache |-> cached.cache, status |-> "returned", from_cache |-> TRUE,
                  dense |-> cached.dense, sparse |-> cached.sparse]
            ELSE IF faults.model
            THEN [cache |-> cached.cache, status |-> "raised", from_cache |-> FALSE,
                  dense |-> <<>>, sparse |-> <<>>]
            ELSE LET vecs == EmbedChunks(texts, size, 1)
                 IN [cache |-> _save_to_cache(cached.cache, cache_key, vecs.dense,
                                              vecs.sparse, faults.write),
                     status |-> "returned", from_cache |-> FALSE,
                     dense |-> vecs.dense, sparse |-> vecs.sparse]

----------------------------------------------------------------------------
(* The vector store collection, as the services use it *)

\* the filter must=[user_id == U] that every call passes
MatchesUser(p, user_id) == p.payload.user_id = user_id

\* variant: the count is issued without the user filter
QdrantCountUnfiltered(s, user_id) == Cardinality(s)

\* qdrant.count(count_filter = user_id)
QdrantCount(s, user_id) == Cardinality({p \in s : MatchesUser(p, user_id)})

\* variant: the delete is issued without the user filter
QdrantDeleteUnfiltered(s, user_id) == {}

\* qdrant.delete(points_selector = filter user_id)
QdrantDelete(s, user_id) == {p \in s : ~MatchesUser(p, user_id)}

\* variant: a point is only inserted when its id is not taken yet
QdrantInsertIfAbsent(s, batch) ==
    LET ids == {batch[i].id : i \in 1..Len(batch)} \ {q.id : q \in s}
        FirstOf(id) == batch[CHOOSE i \in 1..Len(batch) :
                                /\ batch[i].id = id
                                /\ \A j \in 1..(i - 1) : batch[j].id # id]
    IN s \cup {FirstOf(id) : id \in ids}

\* qdrant.upsert of one batch: a point replaces the stored point of its id
\* (the points are applied in the order of the batch, so of the points of one
\* id the last one stays)
QdrantUpsert(s, batch) ==
    LET ids == {batch[i].id : i \in 1..Len(batch)}
        LastOf(id) == batch[CHOOSE i \in 1..Len(batch) :
                               /\ batch[i].id = id
                               /\ \A j \in (i + 1)..Len(batch) : batch[j].id # id]
    IN {q \in s : q.id \notin ids} \cup {LastOf(id) : id \in ids}

----------------------------------------------------------------------------
(* IndexingService *)

\* variant: the except branch reports success too
DeleteUserReportsTrue(s, user_id, backend_fails) ==
    IF backend_fails THEN [store |-> s, result |-> TRUE]
    ELSE [store |-> QdrantDelete(s, user_id), result |-> TRUE]

\* delete_user_transactions: a backend error is caught and turned into False
delete_user_transactions(s, user_id, backend_fails) ==
    IF backend_fails THEN [store |-> s, result |-> FALSE]
    ELSE [store |-> QdrantDelete(s, user_id), result |-> TRUE]

\* count_user_transactions: a backend error is caught and turned into 0
count_user_transactions(s, user_id, backend_fails) ==
    IF backend_fails THEN 0 ELSE QdrantCount(s, user_id)

batch_size == 50

\* variant: the last, partly filled batch is not counted
NumBatchesRoundedDown(n) == n \div batch_size

\* the passes of range(0, len(points), batch_size)
NumBatches(n) == (n + batch_size - 1) \div batch_size

\* points[i : i + batch_size] of the b-th pass of the loop (b = 1, 2, ...)
BatchOf(points, b) ==
    SubSeq(points, (b - 1) * batch_size + 1,
           IF b * batch_size < Len(points) THEN b * batch_size ELSE Len(points))

\* lines 153-157: the first `upto` batches, upserted in order
RECURSIVE UpsertBatches(_, _, _)
UpsertBatches(s, points, upto) ==
    IF upto = 0 THEN [store |-> s, total_loaded |-> 0]
    ELSE LET before == UpsertBatches(s, points, upto - 1)
             batch  == BatchOf(points, upto)
         IN [store |-> QdrantUpsert(before.store, batch),
             total_loaded |-> before.total_loaded + Len(batch)]

\* variant: only a parse error ends the load early, an empty list goes on
NothingToIndexOnlyOnError(parsed) == parsed.raised

\* lines 101-111: the parse raised (bare except) or gave no transaction
NothingToIndex(parsed) == parsed.raised \/ Len(parsed.transactions) = 0

\* load_from_csv. faults: delete (the filtered delete fails), embed (embed_batch
\* raises), upsert (the number of the upsert call that raises, 0 for none).
\* Gives the store afterwards, whether the call returned or raised, the value
\* returned, the points built, what happened to each backend call and the
\* batch each upsert call carried (the last one is the call that failed, if
\* one did).
load_from_csv(s, src, user_id, replace, faults) ==
    LET deleted == IF replace
                   THEN delete_user_transactions(s, user_id, faults.delete)
                   ELSE [store |-> s, result |-> TRUE]
        delete_call == IF ~replace THEN "none"
                       ELSE IF deleted.result THEN "ok" ELSE "failed"
        parsed == parse_transactions_csv(src)
        transactions == parsed.transactions
        early == [store |-> deleted.store, status |-> "returned", result |-> 0,
                  points |-> <<>>, delete_call |-> delete_call,
                  parse_raised |-> parsed.raised, embed_call |-> "none",
                  upsert_calls |-> 0, upsert_failed |-> FALSE, batches |-> <<>>]
    IN IF NothingToIndex(parsed) THEN early
       ELSE IF faults.embed
       THEN [early EXCEPT !.status = "raised", !.embed_call = "failed"]
       ELSE LET points == BuildPoints(transactions, user_id)
                nb     == NumBatches(Len(points))
                fails  == faults.upsert \in 1..nb
                calls  == IF fails THEN faults.upsert ELSE nb
                done   == UpsertBatches(deleted.store, points,
                                        IF fails THEN faults.upsert - 1 ELSE nb)
            IN [store |-> done.store,
                status |-> IF fails THEN "raised" ELSE "returned",
                result |-> IF fails THEN 0 ELSE done.total_loaded,
                points |-> points, delete_call |-> delete_call,
                parse_raised |-> FALSE, embed_call |-> "ok",
                upsert_calls |-> calls,
                upsert_failed |-> fails,
                batches |-> [b \in 1..calls |-> BatchOf(points, b)]]

----------------------------------------------------------------------------
(* RAGService: query-size heuristic *)

UpperCase == <<"A", "B", "C", "D", "E", "F", "G", "H", "I", "J", "K", "L", "M",
               "N", "O", "P", "Q", "R", "S", "T", "U", "V", "W", "X", "Y", "Z">>
LowerCase == <<"a", "b", "c", "d", "e", "f", "g", "h", "i", "j", "k", "l", "m",
               "n", "o", "p", "q", "r", "s", "t", "u", "v", "w", "x", "y", "z">>

LowerChar(c) ==
    IF \E i \in 1..Len(UpperCase) : UpperCase[i] = c
    THEN LowerCase[CHOOSE i \in 1..Len(UpperCase) : UpperCase[i] = c]
    ELSE c

\* str.lower()
Lower(q) == [i \in 1..Len(q) |-> LowerChar(q[i])]

\* lines 178-189 (transliterated)
AggregationWords ==
    {
     <<"v", "s", "e", "g", "o">>,
     <<"i", "t", "o", "g", "o">>,
     <<"s", "u", "m", "m", "a">>,
     <<"s", "r", "e", "d", "n", "i", "y">>,
     <<"z", "a", " ", "m", "e", "s", "y", "a", "t", "s">>,
     <<"z", "a", " ", "g", "o", "d">>,
     <<"s", "t", "a", "t", "i", "s", "t", "i", "k", "a">>,
     <<"s", "k", "o", "l", "k", "o", " ", "v", "s", "e", "g", "o">>,
     <<"t", "o", "p">>,
     <<"r", "e", "y", "t", "i", "n", "g">>}
\* line 196
RecencyWords ==
    {
     <<"p", "o", "s", "l", "e", "d", "n">>,
     <<"n", "e", "d", "a", "v", "n">>,
     <<"v", "c", "h", "e", "r", "a">>,
     <<"s", "e", "g", "o", "d", "n", "y", "a">>,
     <<"k", "o", "g", "d", "a">>,
     <<"n", "a", "y", "d", "i">>}
\* line 203
CategoryWords ==
    {
     <<"k", "a", "f", "e">>,
     <<"r", "e", "s", "t", "o", "r", "a">>,
     <<"t", "a", "k", "s", "i">>,
     <<"e", "d", "a">>,
     <<"p", "o", "d", "p", "i", "s", "k">>,
     <<"r", "a", "z", "v", "l", "e", "c", "h", "e", "n">>}

LimitAggregation == 300
LimitRecency == 70
LimitCategory == 100
LimitDefault == 90

\* variant: the recency keywords are tried before the aggregation keywords
EstimateLimitRecencyFirst(query) ==
    LET query_lower == Lower(query)
    IN IF \E word \in RecencyWords : IsSubstring(word, query_lower) THEN LimitRecency
       ELSE IF \E word \in AggregationWords : IsSubstring(word, query_lower) THEN LimitAggregation
       ELSE IF \E word \in CategoryWords : IsSubstring(word, query_lower) THEN LimitCategory
       ELSE LimitDefault

_estimate_limit(query) ==
    LET query_lower == Lower(query)
    IN IF \E word \in AggregationWords : IsSubstring(word, query_lower) THEN LimitAggregation
       ELSE IF \E word \in RecencyWords : IsSubstring(word, query_lower) THEN LimitRecency
       ELSE IF \E word \in CategoryWords : IsSubstring(word, query_lower) THEN LimitCategory
       ELSE LimitDefault

----------------------------------------------------------------------------
(* RAGService: reciprocal rank fusion *)

\* Scores are kept as exact fractions num/den with den > 0.
FracAdd(a, b) == [num |-> a.num * b.den + b.num * a.den, den |-> a.den * b.den]
FracLess(a, b) == a.num * b.den < b.num * a.den

RrfConstant == 60

\* 1.0 / (rank + 60)
RankScore(rank) == [num |-> 1, den |-> rank + RrfConstant]

RECURSIVE FracSum(_)
FracSum(list) == IF Len(list) = 0 THEN [num |-> 0, den |-> 1]
                 ELSE FracAdd(Head(list), FracSum(Tail(list)))

\* variant: the contributions are summed, not averaged
SumScore(score_list) == FracSum(score_list)

\* variant: the best contribution stands for the point
BestScore(score_list) ==
    CHOOSE x \in {score_list[i] : i \in 1..Len(score_list)} :
        \A i \in 1..Len(score_list) : ~FracLess(x, score_list[i])

\* sum(score_list) / len(score_list)
AvgScore(score_list) ==
    LET t == FracSum(score_list) IN [num |-> t.num, den |-> t.den * Len(score_list)]

\* the keys of a dict filled in this order: first occurrence fixes the place
RECURSIVE KeysInOrder(_, _)
KeysInOrder(ids, seen) ==
    IF Len(ids) = 0 THEN <<>>
    ELSE IF Head(ids) \in seen THEN KeysInOrder(Tail(ids), seen)
    ELSE <<Head(ids)>> \o KeysInOrder(Tail(ids), seen \cup {Head(ids)})

\* the contributions one result list appends for point_id, in rank order
RECURSIVE ListScores(_, _, _)
ListScores(results, point_id, rank) ==
    IF rank > Len(results) THEN <<>>
    ELSE (IF results[rank].id = point_id THEN <<RankScore(rank)>> ELSE <<>>)
         \o ListScores(results, point_id, rank + 1)

\* variant: the sort without reverse = True, lowest score first
RECURSIVE SortByScoreAsc(_)
SortByScoreAsc(pairs) ==
    IF Len(pairs) = 0 THEN <<>>
    ELSE LET sorted == SortByScoreAsc(SubSeq(pairs, 1, Len(pairs) - 1))
             x      == pairs[Len(pairs)]
             keep   == Cardinality({i \in 1..Len(sorted) : ~FracLess(x.score, sorted[i].score)})
         IN SubSeq(sorted, 1, keep) \o <<x>> \o SubSeq(sorted, keep + 1, Len(sorted))

\* list.sort(key = score, reverse = True): descending, equal scores keep their order
RECURSIVE SortByScoreDesc(_)
SortByScoreDesc(pairs) ==
    IF Len(pairs) = 0 THEN <<>>
    ELSE LET sorted == SortByScoreDesc(SubSeq(pairs, 1, Len(pairs) - 1))
             x      == pairs[Len(pairs)]
             \* x goes after every element whose score is not below its own
             keep   == Cardinality({i \in 1..Len(sorted) : ~FracLess(sorted[i].score, x.score)})
         IN SubSeq(sorted, 1, keep) \o <<x>> \o SubSeq(sorted, keep + 1, Len(sorted))

\* hits_dict[point_id]: a sparse hit overwrites the dense hit of the same id
HitOf(dense_results, sparse_results, point_id) ==
    LET all == dense_results \o sparse_results
        last == CHOOSE i \in 1..Len(all) :
                    /\ all[i].id = point_id
                    /\ \A j \in (i + 1)..Len(all) : all[j].id # point_id
    IN all[last]

_rrf_fusion(dense_results, sparse_results, k) ==
    LET ids(results) == [i \in 1..Len(results) |-> results[i].id]
        keys == KeysInOrder(ids(dense_results) \o ids(sparse_results), {})
        combined_scores ==
            [i \in 1..Len(keys) |->
                [point_id |-> keys[i],
                 score |-> AvgScore(ListScores(dense_results, keys[i], 1)
                                    \o ListScores(sparse_results, keys[i], 1))]]
        sorted == SortByScoreDesc(combined_scores)
        top == SubSeq(sorted, 1, IF k < Len(sorted) THEN k ELSE Len(sorted))
    IN [i \in 1..Len(top) |->
           LET hit == HitOf(dense_results, sparse_results, top[i].point_id)
           IN [id |-> top[i].point_id,
               date |-> hit.payload.date,
               amount |-> hit.payload.amount,
               category |-> hit.payload.category,
               description |-> hit.payload.description,
               rrf_score |-> top[i].score]]

----------------------------------------------------------------------------
(* RAGService: hybrid search and ask *)

Min(a, b) == IF a < b THEN a ELSE b

\* what a stored point looks like in a search result
HitFor(p) == [id |-> p.id, payload |-> p.payload]

\* the ranked lists without repetition of at most `limit` members of a set
RankedLists(S, limit) ==
    UNION {{f \in [1..n -> S] : \A i, j \in 1..n : i # j => f[i] # f[j]} :
            n \in 0..Min(limit, Cardinality(S))}

\* variant: the search is issued without the user filter
QdrantSearchUnfiltered(s, user_id, limit) ==
    RankedLists({HitFor(p) : p \in s}, limit)

\* qdrant.search(query_filter = user_id, limit, score_threshold): which points
\* pass the threshold and how they rank is up to the vectors, so every ranked
\* list of at most `limit` points that pass the filter is a possible answer
QdrantSearch(s, user_id, limit) ==
    RankedLists({HitFor(p) : p \in {q \in s : MatchesUser(q, user_id)}}, limit)

\* lines 74-111: the outcomes of one search call, a failure included
SearchOutcomes(s, user_id, limit) ==
    {[failed |-> TRUE, hits |-> <<>>]}
    \cup {[failed |-> FALSE, hits |-> h] : h \in QdrantSearch(s, user_id, limit)}

\* the except branch of each search: a failed search counts as no results
ResultsOf(outcome) == IF outcome.failed THEN <<>> ELSE outcome.hits

\* line 71: the limit the searches and the fusion use
SearchLimit(query, limit) == _estimate_limit(query)

\* variant: a failed search aborts the retrieval instead of counting as empty
SearchTransactionsAbortOnFailure(dense, sparse, limit) ==
    IF dense.failed \/ sparse.failed
    THEN [fused |-> FALSE, transactions |-> <<>>]
    ELSE [fused |-> TRUE, transactions |-> _rrf_fusion(dense.hits, sparse.hits, limit)]

\* variant: the fusion is run whatever the searches returned
SearchTransactionsAlwaysFuse(dense, sparse, limit) ==
    [fused |-> TRUE,
     transactions |-> _rrf_fusion(ResultsOf(dense), ResultsOf(sparse), limit)]

\* lines 113-120
_search_transactions(dense, sparse, limit) ==
    LET dense_results == ResultsOf(dense)
        sparse_results == ResultsOf(sparse)
    IN IF Len(dense_results) > 0 \/ Len(sparse_results) > 0
       THEN [fused |-> TRUE,
             transactions |-> _rrf_fusion(dense_results, sparse_results, limit)]
       ELSE [fused |-> FALSE, transactions |-> <<>>]

\* _format_context: the "no matching transactions" sentence or the numbered block
_format_context(transactions) ==
    IF Len(transactions) = 0 THEN [kind |-> "no_transactions", lines |-> <<>>]
    ELSE [kind |-> "found",
          lines |-> [i \in 1..Len(transactions) |->
                        [index |-> i, date |-> transactions[i].date,
                         category |-> transactions[i].category,
                         amount |-> transactions[i].amount,
                         description |-> transactions[i].description,
                         relevance |-> transactions[i].rrf_score]]]

\* a limit argument of ask: unset (None) or an integer
NoLimit == [given |-> FALSE, val |-> 0]
LimitArgs == {NoLimit} \cup {[given |-> TRUE, val |-> l] : l \in 1..MaxLimit}

\* ask, lines 33-56
EffectiveLimit(query, limit) == IF limit.given THEN limit.val ELSE _estimate_limit(query)

Kofe == <<"k", "o", "f", "e">>
TaksiVchera == <<"T", "a", "k", "s", "i", " ", "v", "c", "h", "e", "r", "a">>
TopKafe == <<"T", "O", "P", " ", "k", "a", "f", "e">>
Queries == {Kofe, TaksiVchera, TopKafe}

----------------------------------------------------------------------------
(* State machine: requests are served one at a time; resp holds the outcome *)
(* of the request being answered until it is delivered to the caller.       *)

Idle == [op |-> "none"]
FusionIdle == [phase |-> "none"]
EstimateIdle == [phase |-> "none"]
EmbedIdle == [phase |-> "none"]
\* no load is running beside the request being served
NoLoads == <<>>

Init ==
    /\ db = Users
    /\ loads = NoLoads
    /\ store = {}
    /\ resp = Idle
    /\ fusion = FusionIdle
    /\ estimate = EstimateIdle
    /\ cache = {}
    /\ embed = EmbedIdle

\* The faults a load can meet: the filtered delete may fail (replace only);
\* embed_batch may raise, or else one of the upsert calls may.
LoadFaults(replace) ==
    {[delete |-> fd, embed |-> fe, upsert |-> fu] :
        fd \in (IF replace THEN BOOLEAN ELSE {FALSE}),
        fe \in BOOLEAN,
        fu \in 0..NumBatches(MaxRows)}
    \ [delete : BOOLEAN, embed : {TRUE}, upsert : 1..NumBatches(MaxRows)]

\* IndexingService.load_from_csv. A caller may also repeat once the call it
\* has just made (an upload repeated, or retried after a failure); origin is
\* the store before the first of the two calls.
Load(src, user_id, replace, faults) ==
    /\ \/ resp = Idle
       \/ /\ resp.op = "load"
          /\ resp.repeats = "none"
          /\ resp.src = src
          /\ resp.user_id = user_id
          /\ resp.replace = replace
    /\ resp' = [op |-> "load", src |-> src, user_id |-> user_id,
                replace |-> replace, pre |-> store,
                origin |-> IF resp = Idle THEN store ELSE resp.pre,
                out |-> load_from_csv(store, src, user_id, replace, faults),
                repeats |-> IF resp = Idle THEN "none"
                            ELSE IF resp.out.status = "returned" THEN "completed"
                            ELSE "failed"]
    /\ store' = resp'.out.store
    /\ UNCHANGED <<fusion, estimate, cache, embed, db, loads>>

LoadAny ==
    \E src \in Sources, user_id \in Users, replace \in BOOLEAN :
        \E faults \in LoadFaults(replace) : Load(src, user_id, replace, faults)

\* IndexingService.delete_user_transactions
DeleteUser ==
    \E user_id \in Users, backend_fails \in BOOLEAN :
        /\ resp = Idle
        /\ LET r == delete_user_transactions(store, user_id, backend_fails)
           IN /\ store' = r.store
              /\ resp' = [op |-> "delete_user", user_id |-> user_id, pre |-> store,
                          status |-> "returned", result |-> r.result,
                          backend_failed |-> backend_fails]
        /\ UNCHANGED <<fusion, estimate, cache, embed, db, loads>>

\* IndexingService.count_user_transactions
CountUser ==
    \E user_id \in Users, backend_fails \in BOOLEAN :
        /\ resp = Idle
        /\ resp' = [op |-> "count_user", user_id |-> user_id, pre |-> store,
                    status |-> "returned",
                    result |-> count_user_transactions(store, user_id, backend_fails),
                    backend_failed |-> backend_fails]
        /\ UNCHANGED <<store, fusion, estimate, cache, embed, db, loads>>

\* RAGService.ask
Ask ==
    \E query \in Queries, user_id \in Users, limit \in LimitArgs, llm_fails \in BOOLEAN :
        /\ resp = Idle
        /\ LET first == EffectiveLimit(query, limit)
               used  == SearchLimit(query, first)
           IN \E dense \in SearchOutcomes(store, user_id, used * 2),
                 sparse \in SearchOutcomes(store, user_id, used * 2) :
                LET found == _search_transactions(dense, sparse, used)
                    context == _format_context(found.transactions)
                IN resp' = [op |-> "ask", query |-> query, user_id |-> user_id,
                            limit |-> limit, pre |-> store,
                            dense |-> dense, sparse |-> sparse,
                            search_limit |-> used * 2, fused |-> found.fused,
                            retrieved |-> found.transactions, context |-> context,
                            llm_failed |-> llm_fails,
                            status |-> IF llm_fails THEN "raised" ELSE "returned",
                            transactions |-> IF llm_fails THEN <<>> ELSE found.transactions,
                            found_count |-> IF llm_fails THEN 0
                                            ELSE Len(found.transactions)]
        /\ UNCHANGED <<store, fusion, estimate, cache, embed, db, loads>>

\* the outcome reaches the caller; the per-request data is dropped
Deliver ==
    /\ resp # Idle
    /\ resp' = Idle
    /\ UNCHANGED <<store, fusion, estimate, cache, embed, db, loads>>

Next == LoadAny \/ DeleteUser \/ CountUser \/ Ask \/ Deliver

Spec == Init /\ [][Next]_vars

----------------------------------------------------------------------------
(* POST /api/v1/upload *)

\* lines 311-341: the figures of the response
Statistics(replace, old_count, loaded_count, new_total) ==
    [processed_from_csv |-> loaded_count,
     before_upload |-> old_count,
     after_upload |-> new_total,
     added_new |-> IF replace THEN loaded_count ELSE new_total - old_count,
     updated_duplicates |-> IF replace THEN 0 ELSE loaded_count - (new_total - old_count),
     deleted |-> IF replace THEN old_count ELSE 0,
     mode |-> IF replace THEN "replace" ELSE "append"]

\* upload_csv for an authenticated user. named_csv: the file name ends with
\* ".csv"; faults: those of the load, and whether the count before and the
\* count after it fail. The uploaded bytes are written to a temporary file,
\* which load_from_csv reads.
upload_csv(s, src, named_csv, user_id, replace, faults) ==
    IF ~named_csv
    THEN [store |-> s, status |-> "error", code |-> 400, called_load |-> FALSE]
    ELSE LET old_count == count_user_transactions(s, user_id, faults.count_before)
             loaded == load_from_csv(s, src, user_id, replace, faults.load)
             new_total == count_user_transactions(loaded.store, user_id, faults.count_after)
         IN IF loaded.status = "raised"
            THEN [store |-> loaded.store, status |-> "error", code |-> 500,
                  called_load |-> TRUE, load |-> loaded]
            ELSE [store |-> loaded.store, status |-> "success", code |-> 200,
                  called_load |-> TRUE, load |-> loaded,
                  statistics |-> Statistics(replace, old_count, loaded.result, new_total)]

\* the files uploaded: one that was uploaded exists when the load opens it
UploadSources ==
    {[kind |-> "ok", rows |-> r] :
        r \in {<<>>, <<CafeRow>>, <<TaxiRow>>, <<CafeRow, TaxiRow>>,
               <<CafeRow, CafeRefundRow>>, <<BadAmountRow>>}}
    \cup {[kind |-> "nocolumn", rows |-> <<CafeRow>>]}

UploadFaults(replace) ==
    [load : LoadFaults(replace), count_before : BOOLEAN, count_after : BOOLEAN]

Upload ==
    \E src \in UploadSources, named_csv \in BOOLEAN, user_id \in Users,
       replace \in BOOLEAN :
        \E faults \in UploadFaults(replace) :
            /\ resp = Idle
            /\ resp' = [op |-> "upload", src |-> src, user_id |-> user_id,
                        replace |-> replace, pre |-> store, faults |-> faults,
                        out |-> upload_csv(store, src, named_csv, user_id, replace, faults)]
            /\ store' = resp'.out.store
            /\ UNCHANGED <<fusion, estimate, cache, embed, db, loads>>

NextUpload == Upload \/ Deliver

SpecUpload == Init /\ [][NextUpload]_vars

----------------------------------------------------------------------------
(* manage.py delete-user *)

\* delete_user of the command line. users: the rows of the users table;
\* confirm: the operator typed "yes"; count_fails, delete_fails: the backend
\* call of count_user_transactions, of delete_user_transactions fails.
delete_user(users, s, user_id, confirm, count_fails, delete_fails) ==
    LET tx_count == count_user_transactions(s, user_id, count_fails)
        deleted == delete_user_transactions(s, user_id, delete_fails)
        stays == [users |-> users, store |-> s, found |-> user_id \in users,
                  confirmed |-> FALSE, tx_count |-> 0, delete_call |-> "none"]
    IN IF user_id \notin users THEN stays
       ELSE IF ~confirm THEN [stays EXCEPT !.tx_count = tx_count]
       ELSE [users |-> users \ {user_id},
             store |-> IF tx_count > 0 THEN deleted.store ELSE s,
             found |-> TRUE, confirmed |-> TRUE, tx_count |-> tx_count,
             delete_call |-> IF tx_count = 0 THEN "none"
                             ELSE IF deleted.result THEN "ok" ELSE "failed"]

AdminDeleteUser ==
    \E user_id \in Users, confirm \in BOOLEAN, count_fails \in BOOLEAN,
       delete_fails \in BOOLEAN :
        /\ resp = Idle
        /\ resp' = [op |-> "admin_delete_user", user_id |-> user_id, pre |-> store,
                    count_failed |-> count_fails,
                    out |-> delete_user(db, store, user_id, confirm, count_fails,
                                        delete_fails)]
        /\ db' = resp'.out.users
        /\ store' = resp'.out.store
        /\ UNCHANGED <<fusion, estimate, cache, embed, loads>>

\* an upload of a user of the users table, no backend call failing
UserUpload ==
    \E src \in UploadSources, user_id \in db, replace \in BOOLEAN :
        Load(src, user_id, replace, [delete |-> FALSE, embed |-> FALSE, upsert |-> 0])

NextAdmin == UserUpload \/ AdminDeleteUser \/ Deliver

SpecAdmin == Init /\ [][NextAdmin]_vars

----------------------------------------------------------------------------
(* Two replace loads of one user run side by side: load_from_csv holds no   *)
(* lock, so the backend calls of the two runs reach the collection in any   *)
(* order that keeps the order of each run.                                  *)

Procs == {1, 2}

\* the files of the two uploads
ConcurrentSources ==
    {[kind |-> "ok", rows |-> r] :
        r \in {<<CafeRow>>, <<TaxiRow>>, <<CafeRow, TaxiRow>>, <<CafeRefundRow>>}}

\* the points a run builds from its file, lines 103-146
PointsOf(p) ==
    BuildPoints(parse_transactions_csv(loads[p].src).transactions, loads[p].user_id)

\* both runs have been called with replace = True for user 1 and with
\* different files; the collection holds what earlier uploads of the two
\* users left
InitConcurrent ==
    /\ db = Users
    /\ resp = Idle
    /\ fusion = FusionIdle
    /\ estimate = EstimateIdle
    /\ cache = {}
    /\ embed = EmbedIdle
    /\ \E earlier \in [Users -> ConcurrentSources \cup {[kind |-> "ok", rows |-> <<>>]}] :
          store = UNION {load_from_csv({}, earlier[u], u, FALSE,
                                       [delete |-> FALSE, embed |-> FALSE,
                                        upsert |-> 0]).store : u \in Users}
    /\ \E first \in ConcurrentSources, second \in ConcurrentSources :
          /\ first # second
          /\ loads = [p \in Procs |->
                         [pc |-> "called", user_id |-> 1, sent |-> 0,
                          src |-> IF p = 1 THEN first ELSE second]]

\* line 99: the filtered delete of a run
LoadDelete ==
    \E p \in Procs :
        /\ loads[p].pc = "called"
        /\ store' = delete_user_transactions(store, loads[p].user_id, FALSE).store
        /\ loads' = [loads EXCEPT ![p].pc = "deleted"]
        /\ UNCHANGED <<resp, fusion, estimate, cache, embed, db>>

\* lines 153-157: one pass of the upsert loop of a run
LoadUpsert ==
    \E p \in Procs :
        /\ loads[p].pc = "deleted"
        /\ loads[p].sent < NumBatches(Len(PointsOf(p)))
        /\ store' = QdrantUpsert(store, BatchOf(PointsOf(p), loads[p].sent + 1))
        /\ loads' = [loads EXCEPT ![p].sent = loads[p].sent + 1]
        /\ UNCHANGED <<resp, fusion, estimate, cache, embed, db>>

\* line 161: the loop is over and the run returns total_loaded
LoadReturn ==
    \E p \in Procs :
        /\ loads[p].pc = "deleted"
        /\ loads[p].sent = NumBatches(Len(PointsOf(p)))
        /\ loads' = [loads EXCEPT ![p].pc = "returned"]
        /\ UNCHANGED <<store, resp, fusion, estimate, cache, embed, db>>

NextConcurrent == LoadDelete \/ LoadUpsert \/ LoadReturn

SpecConcurrent == InitConcurrent /\ [][NextConcurrent]_vars

----------------------------------------------------------------------------
(* _rrf_fusion as a function: its inputs are any two ranked lists of distinct *)
(* points of one user and any k                                               *)

\* MaxHits transactions of user 1 that differ in amount, as indexed points
PoolTransaction(i) ==
    ParseRow([CafeRow EXCEPT !.amount = [ok |-> TRUE, val |-> -100 * i]], "ok").txn

PoolHits == {HitFor(BuildPoints(<<PoolTransaction(i)>>, 1)[1]) : i \in 1..MaxHits}

InitRRF ==
    /\ db = Users
    /\ loads = NoLoads
    /\ store = {}
    /\ resp = Idle
    /\ estimate = EstimateIdle
    /\ cache = {}
    /\ embed = EmbedIdle
    /\ \E dense \in RankedLists(PoolHits, MaxHits),
          sparse \in RankedLists(PoolHits, MaxHits), k \in 1..MaxK :
            fusion = [phase |-> "called", dense |-> dense, sparse |-> sparse, k |-> k]

Fuse ==
    /\ fusion.phase = "called"
    /\ fusion' = [phase |-> "fused", dense |-> fusion.dense, sparse |-> fusion.sparse,
                  k |-> fusion.k,
                  out |-> _rrf_fusion(fusion.dense, fusion.sparse, fusion.k)]
    /\ UNCHANGED <<store, resp, estimate, cache, embed, db, loads>>

NextRRF == Fuse

SpecRRF == InitRRF /\ [][NextRRF]_vars

----------------------------------------------------------------------------
(* _estimate_limit as a function: its inputs are the queries of up to        *)
(* MaxWords words of a vocabulary that meets every keyword list               *)

\* The words (transliterated) and the keyword lists each one meets: "Itogo"
\* and "STOP" hold an aggregation keyword, "Nedavno" a recency keyword and
\* the category keyword "eda" inside it, "RESTORAN" a category keyword;
\* "za" followed by "god" is the aggregation keyword "za god".
Itogo == <<"I", "t", "o", "g", "o">>
Stop == <<"S", "T", "O", "P">>
Nedavno == <<"N", "e", "d", "a", "v", "n", "o">>
Restoran == <<"R", "E", "S", "T", "O", "R", "A", "N">>
Za == <<"z", "a">>
God == <<"g", "o", "d">>
Vocabulary == {Itogo, Stop, Nedavno, Restoran, Kofe, Za, God}

WordLists == UNION {[1..n -> Vocabulary] : n \in 1..MaxWords}

RECURSIVE JoinWords(_)
JoinWords(words) ==
    IF Len(words) = 1 THEN words[1]
    ELSE words[1] \o <<" ">> \o JoinWords(Tail(words))

InitLimit ==
    /\ db = Users
    /\ loads = NoLoads
    /\ store = {}
    /\ resp = Idle
    /\ fusion = FusionIdle
    /\ cache = {}
    /\ embed = EmbedIdle
    /\ \E words \in WordLists :
          estimate = [phase |-> "called", words |-> words, query |-> JoinWords(words)]

EstimateLimit ==
    /\ estimate.phase = "called"
    /\ estimate' = [phase |-> "estimated", words |-> estimate.words,
                    query |-> estimate.query,
                    limit |-> _estimate_limit(estimate.query)]
    /\ UNCHANGED <<store, resp, fusion, cache, embed, db, loads>>

NextLimit == EstimateLimit

SpecLimit == InitLimit /\ [][NextLimit]_vars

----------------------------------------------------------------------------
(* EmbeddingService.embed_batch with its cache directory: the batches are    *)
(* the texts of a few uploads; a cache file may get damaged between calls    *)

\* a row whose description reads like the end of CafeRow's text followed by
\* the start of TaxiRow's text
SpliceRow ==
    [date |-> [form |-> "ymd", val |-> Mar1], amount |-> [ok |-> TRUE, val |-> -1200],
     category |-> Cafe,
     description |-> Coffee \o <<" ">> \o FloatStr(500) \o <<" ", "r", "u", "b">>
                     \o IsoFormat(Mar2) \o <<" ">> \o Taxi \o <<" ">> \o Ride,
     mcc |-> Mcc4121]

\* indexing_service.py line 113: the texts of the parsed rows
TextsOf(rows) ==
    [i \in 1..Len(rows) |-> format_transaction_text(ParseRow(rows[i], "ok").txn)]

Batches ==
    {TextsOf(rows) : rows \in {<<>>, <<CafeRow>>, <<TaxiRow>>, <<CafeRow, TaxiRow>>,
                               <<TaxiRow, CafeRow>>, <<SpliceRow>>}}

EmbedFaults == [model : BOOLEAN, write : WriteOutcomes]

InitEmbed ==
    /\ db = Users
    /\ loads = NoLoads
    /\ store = {}
    /\ resp = Idle
    /\ fusion = FusionIdle
    /\ estimate = EstimateIdle
    /\ cache = {}
    /\ embed = EmbedIdle

\* EmbeddingService.embed_batch
EmbedBatch ==
    \E texts \in Batches, size \in 1..MaxBatchSize, faults \in EmbedFaults :
        /\ embed = EmbedIdle
        /\ embed' = [phase |-> "done", texts |-> texts, batch_size |-> size,
                     faults |-> faults, pre |-> cache,
                     out |-> embed_batch_use_cache(cache, texts, size, faults)]
        /\ cache' = embed'.out.cache
        /\ UNCHANGED <<store, resp, fusion, estimate, db, loads>>

\* a cache file is damaged on disk: pickle.load will fail on it
DamageCacheFile ==
    \E f \in cache :
        /\ embed = EmbedIdle
        /\ f.readable
        /\ cache' = (cache \ {f}) \cup {Unreadable(f.key)}
        /\ UNCHANGED <<store, resp, fusion, estimate, embed, db, loads>>

\* the lists reach the caller
ReturnVectors ==
    /\ embed # EmbedIdle
    /\ embed' = EmbedIdle
    /\ UNCHANGED <<store, resp, fusion, estimate, cache, db, loads>>

NextEmbed == EmbedBatch \/ DamageCacheFile \/ ReturnVectors

SpecEmbed == InitEmbed /\ [][NextEmbed]_vars

----------------------------------------------------------------------------
(* load_from_csv on long CSVs, which need several upsert batches, and on a   *)
(* CSV whose category and description hold the separator of the id string   *)

ManyRows(n) == [i \in 1..n |-> [CafeRow EXCEPT !.amount = [ok |-> TRUE, val |-> -i]]]

\* n rows, the last one a repetition of the first
RepeatingRows(n) == [i \in 1..n |-> IF i = n THEN ManyRows(n)[1] ELSE ManyRows(n)[i]]

\* a CSV that fills its last batch, and one with a row more
RowCounts == {batch_size * MaxBatches, batch_size * MaxBatches + 1}

PipeRowLeft ==
    [CafeRow EXCEPT !.category = <<"A", "|", "B">>, !.description = <<"C">>]
PipeRowRight ==
    [CafeRow EXCEPT !.category = <<"A">>, !.description = <<"B", "|", "C">>]

BulkSources ==
    {[kind |-> "ok", rows |-> ManyRows(n)] : n \in RowCounts}
    \cup {[kind |-> "ok", rows |-> RepeatingRows(batch_size + 1)],
          [kind |-> "ok", rows |-> <<PipeRowLeft, PipeRowRight>>]}

\* the filtered delete may fail (replace only), or one of the upsert calls
BulkFaults(replace) ==
    [delete : (IF replace THEN BOOLEAN ELSE {FALSE}), embed : {FALSE},
     upsert : 0..(MaxBatches + 1)]

LoadBulk ==
    \E src \in BulkSources, replace \in BOOLEAN :
        \E faults \in BulkFaults(replace) : Load(src, 1, replace, faults)

NextBulk == LoadBulk \/ Deliver

SpecBulk == Init /\ [][NextBulk]_vars

----------------------------------------------------------------------------
(* Properties *)

UserOf(p) == p.payload.user_id

UserPoints(s, user_id) == {p \in s : UserOf(p) = user_id}

SeqRange(f) == {f[i] : i \in 1..Len(f)}

\* the five fields the id is meant to be a function of
KeyTuple(p) ==
    <<UserOf(p), p.payload.date, p.payload.amount, p.payload.category,
      p.payload.description>>

\* the content of a transaction, the user aside
ContentOf(p) ==
    <<p.payload.date, p.payload.amount, p.payload.category, p.payload.description,
      p.payload.mcc, p.payload.cashback, p.payload.is_expense>>

\* every point a load has built or met: stored before, built by the call, stored after
PointsSeen == resp.pre \cup SeqRange(resp.out.points) \cup store

IdsOf(hits) == [i \in 1..Len(hits) |-> hits[i].id]

\* C1: read isolation. Every hit of the dense and of the sparse search of
\* ask(query, U), and every transaction ask retrieves or returns, is a stored
\* point whose payload.user_id is U; no point of another user is returned.
ReadIsolation ==
    resp.op = "ask" =>
        /\ \A h \in SeqRange(resp.dense.hits) \cup SeqRange(resp.sparse.hits) :
              h.payload.user_id = resp.user_id
        /\ \A t \in SeqRange(resp.retrieved) \cup SeqRange(resp.transactions) :
              /\ \E p \in store : p.id = t.id /\ UserOf(p) = resp.user_id
              /\ \A p \in store : p.id = t.id => UserOf(p) = resp.user_id

\* ask returned transactions of its user while the other user holds points too
ReadIsolationWitness ==
    /\ resp.op = "ask"
    /\ resp.status = "returned"
    /\ Len(resp.transactions) = 2
    /\ ~resp.dense.failed /\ Len(resp.dense.hits) > 0
    /\ ~resp.sparse.failed /\ Len(resp.sparse.hits) > 0
    /\ \E p \in store : UserOf(p) # resp.user_id

\* C2: write isolation. load(source, U, replace) and delete_user(U) create,
\* overwrite or remove only points of U: the points of every other user, with
\* their ids, vectors and payloads, and that user's count are as before.
WriteIsolation ==
    resp.op \in {"load", "delete_user"} =>
        /\ \A p \in (store \ resp.pre) \cup (resp.pre \ store) : UserOf(p) = resp.user_id
        /\ \A other \in Users \ {resp.user_id} :
              /\ UserPoints(store, other) = UserPoints(resp.pre, other)
              /\ Cardinality(UserPoints(store, other))
                     = Cardinality(UserPoints(resp.pre, other))

\* a replacing load, or a delete, changed U's points while another user holds points
WriteIsolationWitness ==
    /\ \/ resp.op = "load" /\ resp.replace /\ resp.out.status = "returned"
       \/ resp.op = "delete_user" /\ resp.result
    /\ UserPoints(resp.pre, resp.user_id) # {}
    /\ UserPoints(store, resp.user_id) # UserPoints(resp.pre, resp.user_id)
    /\ \E p \in store : UserOf(p) # resp.user_id

\* C3: id determinism. Two points with the same (user_id, date, amount,
\* category, description) have the same id, whatever their mcc, cashback and
\* is_expense, their position in the source and what was indexed before.
IdDeterminism ==
    resp.op = "load" =>
        \A p, q \in PointsSeen : KeyTuple(p) = KeyTuple(q) => p.id = q.id

\* a load built, at two positions, two points equal on the key and different in
\* mcc, cashback and is_expense, while a point of that key was stored before
IdDeterminismWitness ==
    /\ resp.op = "load"
    /\ \E i, j \in 1..Len(resp.out.points) :
          /\ i < j
          /\ KeyTuple(resp.out.points[i]) = KeyTuple(resp.out.points[j])
          /\ resp.out.points[i].payload.mcc # resp.out.points[j].payload.mcc
          /\ resp.out.points[i].payload.cashback # resp.out.points[j].payload.cashback
          /\ resp.out.points[i].payload.is_expense # resp.out.points[j].payload.is_expense
          /\ \E p \in resp.pre : KeyTuple(p) = KeyTuple(resp.out.points[i])

\* C4: the same transaction content indexed for two different users gets two
\* different ids, and a load for one user leaves the other user's point of
\* the same content in place.
UserSeparation ==
    resp.op = "load" =>
        /\ \A p, q \in PointsSeen : UserOf(p) # UserOf(q) => p.id # q.id
        /\ \A p \in resp.pre :
              UserOf(p) # resp.user_id => p \in store

\* a load indexed for one user the content another user already has a point of
UserSeparationWitness ==
    /\ resp.op = "load"
    /\ resp.out.status = "returned"
    /\ \E p \in resp.pre, q \in store \ resp.pre :
          /\ UserOf(p) # UserOf(q)
          /\ ContentOf(p) = ContentOf(q)
          /\ p \in store

\* C5: idempotent upsert. A completed append load of a source that repeats a
\* completed append load of the same source for the same user leaves the
\* store, and so the user's count, as the first load left them.
IdempotentUpsert ==
    (/\ resp.op = "load"
     /\ ~resp.replace
     /\ resp.repeats = "completed"
     /\ resp.out.status = "returned") =>
        /\ store = resp.pre
        /\ Cardinality(UserPoints(store, resp.user_id))
               = Cardinality(UserPoints(resp.pre, resp.user_id))

\* the repeated append load processed two records that the first had stored
IdempotentUpsertWitness ==
    /\ resp.op = "load"
    /\ ~resp.replace
    /\ resp.repeats = "completed"
    /\ resp.out.status = "returned"
    /\ resp.out.result = 2
    /\ Cardinality(UserPoints(store, resp.user_id)) = 2

\* C6 (as claimed): after load(csv, U, replace = true) completes on a store
\* where U already has points, U's count equals the number of records of the
\* new csv and none of U's earlier points survives unless the csv contains it.
ReplaceSemantics ==
    (/\ resp.op = "load"
     /\ resp.replace
     /\ resp.out.status = "returned"
     /\ UserPoints(resp.pre, resp.user_id) # {}) =>
        /\ Cardinality(UserPoints(store, resp.user_id))
               = Len(parse_transactions_csv(resp.src).transactions)
        /\ \A p \in UserPoints(resp.pre, resp.user_id) :
              p \in store => p \in SeqRange(resp.out.points)

EmptyCase ==
    (/\ resp.op = "ask"
     /\ resp.dense.failed \/ Len(resp.dense.hits) = 0
     /\ resp.sparse.failed \/ Len(resp.sparse.hits) = 0) =>
        /\ resp.retrieved = <<>>
        /\ ~resp.fused
        /\ resp.context.kind = "no_transactions"
        /\ ~resp.llm_failed =>
              /\ resp.status = "returned"
              /\ resp.transactions = <<>>
              /\ resp.found_count = 0

\* a user who has points asked, one search found nothing and the other failed
EmptyCaseWitness ==
    /\ resp.op = "ask"
    /\ UserPoints(store, resp.user_id) # {}
    /\ ~resp.dense.failed /\ Len(resp.dense.hits) = 0
    /\ resp.sparse.failed
    /\ resp.status = "returned"
    /\ resp.found_count = 0

\* C9 (as claimed): with an explicit limit L each search requests 2 x L
\* results and at most L transactions are retrieved, whatever the query.
ExplicitLimitHonoured ==
    (resp.op = "ask" /\ resp.limit.given) =>
        /\ resp.search_limit = 2 * resp.limit.val
        /\ Len(resp.retrieved) <= resp.limit.val

\* rank of a point in a result list, 0 when it is not in it
RankIn(results, point_id) ==
    IF \E r \in 1..Len(results) : results[r].id = point_id
    THEN CHOOSE r \in 1..Len(results) : results[r].id = point_id
    ELSE 0

\* the average of 1/(r + 60) over the lists holding the point, as num/den
ExpectedScore(point_id) ==
    LET d == RankIn(fusion.dense, point_id)
        s == RankIn(fusion.sparse, point_id)
    IN IF d > 0 /\ s > 0
       THEN [num |-> (d + 60) + (s + 60), den |-> 2 * (d + 60) * (s + 60)]
       ELSE [num |-> 1, den |-> (IF d > 0 THEN d ELSE s) + 60]

FusedIds == SeqRange(IdsOf(fusion.dense)) \cup SeqRange(IdsOf(fusion.sparse))

\* C10: RRF fusion result. Each returned transaction's rrf_score is the
\* average of 1/(r + 60) over the lists holding its point at rank r; the list
\* is in non-increasing score order, holds each point id at most once, and
\* holds min(k, number of distinct ids) points, none scoring below a point
\* left out.
RrfFusionResult ==
    fusion.phase = "fused" =>
        LET out == fusion.out
            n == Len(out)
        IN /\ \A i \in 1..n :
                 /\ out[i].id \in FusedIds
                 /\ out[i].rrf_score.num * ExpectedScore(out[i].id).den
                        = ExpectedScore(out[i].id).num * out[i].rrf_score.den
           /\ \A i, j \in 1..n :
                 i < j => out[i].rrf_score.num * out[j].rrf_score.den
                              >= out[j].rrf_score.num * out[i].rrf_score.den
           /\ \A i, j \in 1..n : i # j => out[i].id # out[j].id
           /\ n = Min(fusion.k, Cardinality(FusedIds))
           /\ \A i \in 1..n : \A x \in FusedIds \ SeqRange(IdsOf(out)) :
                 out[i].rrf_score.num * ExpectedScore(x).den
                     >= ExpectedScore(x).num * out[i].rrf_score.den

\* a fusion of overlapping lists that had to cut: more distinct points than k,
\* the first returned point found by both searches
RrfFusionResultWitness ==
    /\ fusion.phase = "fused"
    /\ Cardinality(FusedIds) > fusion.k
    /\ Len(fusion.out) = fusion.k
    /\ fusion.k > 1
    /\ RankIn(fusion.dense, fusion.out[2].id) > 0
    /\ RankIn(fusion.sparse, fusion.out[2].id) > 0
    /\ RankIn(fusion.dense, fusion.out[1].id) = 0

\* C11: RRF monotonicity. When one point is ranked first by the dense and by
\* the sparse search, the fusion returns it first, and every returned point
\* that both lists rank lower has a strictly lower fused score.
RrfMonotonicity ==
    (/\ fusion.phase = "fused"
     /\ Len(fusion.dense) > 0
     /\ Len(fusion.sparse) > 0
     /\ fusion.dense[1].id = fusion.sparse[1].id) =>
        LET out == fusion.out
        IN /\ Len(out) > 0
           /\ out[1].id = fusion.dense[1].id
           /\ \A i \in 1..Len(out) :
                 (RankIn(fusion.dense, out[i].id) > 1
                  /\ RankIn(fusion.sparse, out[i].id) > 1) =>
                     out[i].rrf_score.num * out[1].rrf_score.den
                         < out[1].rrf_score.num * out[i].rrf_score.den

\* both lists start with the same point and the second returned point is
\* ranked lower by both
RrfMonotonicityWitness ==
    /\ fusion.phase = "fused"
    /\ Len(fusion.dense) > 1
    /\ Len(fusion.sparse) > 1
    /\ fusion.dense[1].id = fusion.sparse[1].id
    /\ Len(fusion.out) > 1
    /\ RankIn(fusion.dense, fusion.out[2].id) > 1
    /\ RankIn(fusion.sparse, fusion.out[2].id) > 1

\* the keyword lists a word of the vocabulary meets by itself
MeetsAlone(word) ==
    IF word \in {Itogo, Stop} THEN {"aggregation"}
    ELSE IF word = Nedavno THEN {"recency", "category"}
    ELSE IF word = Restoran THEN {"category"}
    ELSE {}

\* the keyword lists a query made of these words meets
Meets(words) ==
    UNION {MeetsAlone(words[i]) : i \in 1..Len(words)}
    \cup (IF \E i \in 1..(Len(words) - 1) : words[i] = Za /\ words[i + 1] = God
          THEN {"aggregation"} ELSE {})

\* C12: query-size heuristic priority. Keywords are matched as substrings,
\* whatever the case. A query with an aggregation keyword gets 300, even with
\* recency or category words; otherwise a query with a recency keyword gets
\* 70, even with a category word; otherwise a query with a category keyword
\* gets 100; otherwise the limit is 90.
EstimatePriority ==
    estimate.phase = "estimated" =>
        LET m == Meets(estimate.words)
        IN estimate.limit = IF "aggregation" \in m THEN 300
                            ELSE IF "recency" \in m THEN 70
                            ELSE IF "category" \in m THEN 100
                            ELSE 90

\* a query that meets the aggregation list inside an upper-case word and the
\* recency and category lists too was given 300
EstimatePriorityWitness ==
    /\ estimate.phase = "estimated"
    /\ estimate.words = <<Nedavno, Stop>>
    /\ estimate.limit = 300

\* C13 (as claimed): no partial writes on a source format error. When the
\* source of a load cannot be parsed into transaction records (the parse
\* fails or no row gives a record), zero records are indexed and the store
\* holds exactly the points it held before the call, whatever replace is.
NoPartialWrites ==
    (/\ resp.op = "load"
     /\ \/ parse_transactions_csv(resp.src).raised
        \/ Len(parse_transactions_csv(resp.src).transactions) = 0) =>
        /\ resp.out.points = <<>>
        /\ store = resp.pre

WriteFailuresLoud ==
    (/\ resp.op = "load"
     /\ resp.out.delete_call = "failed" \/ resp.out.upsert_failed) =>
        resp.out.status = "raised"

\* C16 (as claimed): generation failure. When the language-model call fails,
\* ask raises, and what reaches the caller still holds the transactions that
\* were retrieved.
GenerationFailure ==
    (resp.op = "ask" /\ resp.llm_failed) =>
        /\ resp.status = "raised"
        /\ resp.transactions = resp.retrieved

\* C17: count_user(U) returns the number of stored points whose
\* payload.user_id is U; when the backend count fails it returns 0; it
\* never raises and leaves the store as it was.
CountUserExact ==
    resp.op = "count_user" =>
        /\ resp.status = "returned"
        /\ store = resp.pre
        /\ resp.result = IF resp.backend_failed THEN 0
                         ELSE Cardinality(UserPoints(store, resp.user_id))

\* a count of two points of one user while the other user holds points too
CountUserExactWitness ==
    /\ resp.op = "count_user"
    /\ ~resp.backend_failed
    /\ resp.result = 2
    /\ Cardinality(store) > 2

\* C18: delete_user(U) never raises. It returns true when the filtered
\* delete succeeded, also when U had no points, and false when the backend
\* failed; after a true result no stored point has user_id U.
DeleteUserResult ==
    resp.op = "delete_user" =>
        /\ resp.status = "returned"
        /\ resp.result = ~resp.backend_failed
        /\ resp.result => Cardinality(UserPoints(store, resp.user_id)) = 0
        /\ ~resp.result => store = resp.pre

\* delete_user returned true for a user without points while the store
\* holds points of the other user
DeleteUserResultWitness ==
    /\ resp.op = "delete_user"
    /\ resp.result
    /\ UserPoints(resp.pre, resp.user_id) = {}
    /\ store # {}

\* C19 (as claimed): embedding cache key. A batch has a cache key that no
\* different batch has, so a cache file that holds the vectors of another
\* batch is never the file of this batch, and what embed_batch returns are
\* the vectors of its own texts, one per text.
CacheKeyPerBatch ==
    embed.phase = "done" =>
        LET own == [i \in 1..Len(embed.texts) |-> EmbedDense(embed.texts[i])]
        IN /\ \A f \in embed.pre :
                 (f.readable /\ f.dense # own) => f.key # _get_cache_key(embed.texts)
           /\ embed.out.status = "returned" =>
                 /\ embed.out.dense = own
                 /\ embed.out.sparse
                        = [i \in 1..Len(embed.texts) |-> EmbedSparse(embed.texts[i])]

\* the cache file of the batch was there and could not be read
CacheFileCorrupt ==
    \E f \in embed.pre : f.key = _get_cache_key(embed.texts) /\ ~f.readable

BatchOrderPreserved ==
    (embed.phase = "done" /\ embed.out.status = "returned") =>
        /\ Len(embed.out.dense) = Len(embed.texts)
        /\ Len(embed.out.sparse) = Len(embed.texts)
        /\ \A i \in 1..Len(embed.texts) :
              /\ embed.out.dense[i] = EmbedDense(embed.texts[i])
              /\ embed.out.sparse[i] = EmbedSparse(embed.texts[i])

RECURSIVE Flatten(_)
Flatten(seqs) == IF Len(seqs) = 0 THEN <<>> ELSE Head(seqs) \o Flatten(Tail(seqs))

\* C22: upsert batching. A load that completes on N parsed records issues
\* ceil(N / 50) upsert calls; each carries between 1 and 50 points; the calls
\* taken together carry the points of the records in source order, each
\* point once; the value returned is N.
UpsertBatching ==
    (resp.op = "load" /\ resp.out.status = "returned") =>
        LET transactions == parse_transactions_csv(resp.src).transactions
            N == Len(transactions)
            batches == resp.out.batches
        IN /\ 50 * Len(batches) >= N
           /\ 50 * (Len(batches) - 1) < N
           /\ \A b \in 1..Len(batches) : Len(batches[b]) \in 1..50
           /\ Len(Flatten(batches)) = N
           /\ \A i \in 1..N :
                 LET p == Flatten(batches)[i]
                 IN /\ UserOf(p) = resp.user_id
                    /\ p.payload.date = transactions[i].date
                    /\ p.payload.amount = transactions[i].amount
                    /\ p.payload.category = transactions[i].category
                    /\ p.payload.description = transactions[i].description
                    /\ p.payload.mcc = transactions[i].mcc
           /\ resp.out.result = N

\* a load of 51 records, the last repeating the first, into an empty store
\* took two upsert calls and returned 51 while 50 points were created
UpsertBatchingWitness ==
    /\ resp.op = "load"
    /\ resp.out.status = "returned"
    /\ resp.pre = {}
    /\ Len(resp.out.batches) = 2
    /\ Len(resp.out.batches[2]) = 1
    /\ resp.out.result = 51
    /\ Cardinality(store) = 50

NoFaults == [delete |-> FALSE, embed |-> FALSE, upsert |-> 0]

\* C23 (as claimed): partial batches need no rollback. When a load stops
\* after k upsert batches, the points of those batches are in the store; when
\* the same load is then run again and completes, the store is the one an
\* uninterrupted load would have left, no id held by two points.
PartialBatchesNoRollback ==
    /\ (resp.op = "load" /\ resp.out.upsert_failed) =>
           \A b \in 1..(resp.out.upsert_calls - 1) :
               \A i \in 1..Len(resp.out.batches[b]) :
                   \E q \in store : q.id = resp.out.batches[b][i].id
    /\ (resp.op = "load" /\ resp.repeats = "failed" /\ resp.out.status = "returned") =>
           /\ store = load_from_csv(resp.origin, resp.src, resp.user_id,
                                    resp.replace, NoFaults).store
           /\ \A p, q \in store : p.id = q.id => p = q

\* C24: dedup on non-key fields. Records of one user that are equal on date,
\* amount, category and description, whatever their mcc and cashback, get
\* one id; after a load that completes the store holds a single point for
\* them, and it is the point of the record that was upserted last.
DedupOnNonKeyFields ==
    (resp.op = "load" /\ resp.out.status = "returned") =>
        \A i \in 1..Len(resp.out.points) :
            LET points == resp.out.points
                same == {k \in 1..Len(points) : KeyTuple(points[k]) = KeyTuple(points[i])}
                last == CHOOSE k \in same : \A m \in same : m <= k
            IN /\ \A k \in same : points[k].id = points[i].id
               /\ \A q \in resp.pre :
                     KeyTuple(q) = KeyTuple(points[i]) => q.id = points[i].id
               /\ {q \in store : KeyTuple(q) = KeyTuple(points[i])} = {points[last]}

\* a load of two records equal on the key and different in mcc and cashback,
\* on a store that held the point of the first, left the point of the second
DedupOnNonKeyFieldsWitness ==
    /\ resp.op = "load"
    /\ resp.out.status = "returned"
    /\ Len(resp.out.points) = 2
    /\ KeyTuple(resp.out.points[1]) = KeyTuple(resp.out.points[2])
    /\ resp.out.points[1].payload.mcc # resp.out.points[2].payload.mcc
    /\ resp.out.points[1].payload.cashback # resp.out.points[2].payload.cashback
    /\ resp.out.points[1] \in resp.pre
    /\ resp.out.points[1] \notin store
    /\ resp.out.points[2] \in store

\* C25: distinct ids for distinct key tuples. Points that differ in one of
\* user_id, date, amount, category, description have different ids, whatever
\* strings category and description are; a load into an empty store of n
\* records with pairwise different key tuples leaves n points.
DistinctIdsForDistinctKeys ==
    (resp.op = "load" /\ resp.out.status = "returned") =>
        LET points == resp.out.points
            n == Len(points)
        IN /\ \A i, j \in 1..n :
                 KeyTuple(points[i]) # KeyTuple(points[j]) => points[i].id # points[j].id
           /\ (/\ resp.pre = {}
               /\ \A i, j \in 1..n : i # j => KeyTuple(points[i]) # KeyTuple(points[j]))
              => Cardinality(store) = n

\* the fused score _rrf_fusion gives point_id, read from a fusion that cuts nothing
FusedScore(dense_results, sparse_results, point_id) ==
    LET all == _rrf_fusion(dense_results, sparse_results,
                           Len(dense_results) + Len(sparse_results))
        i == CHOOSE j \in 1..Len(all) : all[j].id = point_id
    IN all[i].rrf_score

\* C26: fusion is order-independent. With the dense and the sparse result
\* list exchanged every point gets the same fused score and the same set of
\* transactions is returned, also when points tie in score at the cut-off.
FusionOrderIndependent ==
    fusion.phase = "fused" =>
        LET swapped == _rrf_fusion(fusion.sparse, fusion.dense, fusion.k)
        IN /\ \A x \in FusedIds :
                 FusedScore(fusion.dense, fusion.sparse, x)
                     = FusedScore(fusion.sparse, fusion.dense, x)
           /\ SeqRange(fusion.out) = SeqRange(swapped)

\* a result list without the hit of point_id, the other hits in their order
Without(results, point_id) ==
    LET Other(hit) == hit.id # point_id IN SelectSeq(results, Other)

BothLists == SeqRange(IdsOf(fusion.dense)) \cap SeqRange(IdsOf(fusion.sparse))

\* the fused score of a point of both lists had only one list held it: the
\* list where it ranks better, or the other one
OnlyInBetter(point_id) ==
    IF RankIn(fusion.dense, point_id) <= RankIn(fusion.sparse, point_id)
    THEN FusedScore(fusion.dense, Without(fusion.sparse, point_id), point_id)
    ELSE FusedScore(Without(fusion.dense, point_id), fusion.sparse, point_id)

OnlyInWorse(point_id) ==
    IF RankIn(fusion.dense, point_id) <= RankIn(fusion.sparse, point_id)
    THEN FusedScore(Without(fusion.dense, point_id), fusion.sparse, point_id)
    ELSE FusedScore(fusion.dense, Without(fusion.sparse, point_id), point_id)

\* C30 as stated: being found by the second source never demotes a point. A
\* point of both lists has a fused score at least as high as the score it
\* would have were it only in the list where it ranks better.
SecondSourceNeverDemotes ==
    fusion.phase = "fused" =>
        \A x \in BothLists :
            ~FracLess(FusedScore(fusion.dense, fusion.sparse, x), OnlyInBetter(x))

\* C30, amended: the fused score of a point of both lists lies between the
\* scores it would have in one list alone: never above that of the list
\* where it ranks better, never below that of the other, and strictly below
\* the better one whenever the two ranks differ.
SecondSourceAveraged ==
    fusion.phase = "fused" =>
        \A x \in BothLists :
            LET fused == FusedScore(fusion.dense, fusion.sparse, x)
            IN /\ ~FracLess(OnlyInBetter(x), fused)
               /\ ~FracLess(fused, OnlyInWorse(x))
               /\ RankIn(fusion.dense, x) # RankIn(fusion.sparse, x)
                     => FracLess(fused, OnlyInBetter(x))
               /\ \A i \in 1..Len(fusion.out) :
                     fusion.out[i].id = x =>
                         /\ ~FracLess(fusion.out[i].rrf_score, fused)
                         /\ ~FracLess(fused, fusion.out[i].rrf_score)

\* a returned point that the two lists rank differently scores below what
\* its better list alone would give it
SecondSourceAveragedWitness ==
    /\ fusion.phase = "fused"
    /\ \E i \in 1..Len(fusion.out) :
          /\ fusion.out[i].id \in BothLists
          /\ RankIn(fusion.dense, fusion.out[i].id) # RankIn(fusion.sparse, fusion.out[i].id)
          /\ FracLess(fusion.out[i].rrf_score, OnlyInBetter(fusion.out[i].id))
          /\ FracLess(OnlyInWorse(fusion.out[i].id), fusion.out[i].rrf_score)

\* C28: upload statistics balance. In every successful upload response, in
\* append and in replace mode and for any CSV, one whose rows repeat a key
\* tuple included, after_upload = before_upload + added_new - deleted.
UploadStatisticsBalance ==
    (resp.op = "upload" /\ resp.out.status = "success") =>
        LET st == resp.out.statistics
        IN st.after_upload = st.before_upload + st.added_new - st.deleted

\* C29: admin delete-user leaves no data behind. Whenever a run of the
\* command-line delete_user is confirmed and removes the user from the users
\* table, no point of that user remains in the vector store, also when the
\* count or the delete call of the vector store fails during the run.
AdminDeleteLeavesNoData ==
    (/\ resp.op = "admin_delete_user"
     /\ resp.out.confirmed
     /\ resp.user_id \notin db) =>
        UserPoints(store, resp.user_id) = {}

\* C27: concurrent replace loads. When two replace loads of one user with
\* different CSVs run concurrently and both complete, the user's points are
\* exactly the records of one of the two CSVs: never a mix of both files and
\* never empty.
ConcurrentReplaceLoads ==
    (\A p \in Procs : loads[p].pc = "returned") =>
        /\ \E p \in Procs :
              UserPoints(store, loads[p].user_id)
                  = load_from_csv({}, loads[p].src, loads[p].user_id, TRUE, NoFaults).store
        /\ \A p \in Procs : UserPoints(store, loads[p].user_id) # {}

====
